---- MODULE Spec2Model ----
(***************************************************************************)
(* Model of sapphire's event core (src/sapphire/core/base/events.py) and   *)
(* of its logger module (src/sapphire/logger/logger.py).                   *)
(*                                                                         *)
(* Three specifications share one state:                                   *)
(*   SpecAlloc  threads calling SapphireEvents.chain/new_context_chain     *)
(*   SpecReg    threads calling SapphireEvents.serialize                   *)
(*   SpecLog    one Logger instance: start, handle (concurrent), end       *)
(* Every statement that reads or writes shared state is one step, so the   *)
(* interleavings are those the interpreter can produce between bytecodes.  *)
(***************************************************************************)
EXTENDS Integers, Sequences, FiniteSets, TLC

\* ------------------------------------------------------------------ bounds
NThreads == 2
MaxCalls == 2
MaxSerialize == 2
NHandlers == 2
MaxEvents == 1

Threads == 1..NThreads
Handlers == 1..NHandlers

\* ------------------------------------------------------------------- state
VARIABLES
    \* SapphireEvents class attributes
    lock,             \* _lock: 0 when free, else the thread holding it
    intern_chain,     \* _intern_chain: the context-0 cursor
    current_context,  \* _current_context
    intern_map,       \* _intern_map: name -> event class
    \* allocator callers
    apc,              \* position of each thread inside chain/new_context_chain
    alocal,           \* the local variable `chain` of each call
    astart,           \* how many calls had returned when each call began (history)
    ncalls,           \* calls started so far (all threads)
    nchain,           \* chain() calls without an event started so far
    returned,         \* what every finished call returned
    \* serialize callers
    spc,              \* position of each thread inside serialize
    sname,            \* the argument `event` of each call
    sidx,             \* position of each call's scan of SapphireEvents.__dict__
    sseen,            \* what each call knew at its first line (history)
    nscalls,          \* serialize calls started so far
    nscans,           \* scans of SapphireEvents.__dict__ started so far
    built,            \* some scan has run to its end
    resolved,         \* what every finished serialize call returned or raised
    \* the Logger instance and the bus around it
    config,           \* the configuration view handed to the module
    lstate,           \* constructed, starting, started, ended or failed
    lpc,              \* position inside Logger.start
    attrs,            \* the instance attributes start has set so far
    log_file,         \* self.log_file
    log_level,        \* self.log_level
    to_terminal,      \* self.to_terminal
    bus,              \* events emitted through emit_event, not yet dispatched
    emitted,          \* every event the logger emitted (history)
    file,             \* the lines of the log file
    terminal,         \* the lines printed
    hpc,              \* position of each running handle call
    hev,              \* the event of each running handle call
    hbuf,             \* the open file object of each running handle call
    handled,          \* every handle call made (history)
    nevents,          \* events created so far
    nend,             \* calls of end so far
    raised            \* the exception start or a handle call ended with

avars == <<lock, intern_chain, current_context, apc, alocal, astart, ncalls, nchain, returned>>
rvars == <<intern_map, spc, sname, sidx, sseen, nscalls, nscans, built, resolved>>
lvars == <<config, lstate, lpc, attrs, log_file, log_level, to_terminal, bus, emitted,
           file, terminal, hpc, hev, hbuf, handled, nevents, nend, raised>>
vars == <<avars, rvars, lvars>>

\* ------------------------------------------------------------------- Chain
Chain(context, flow) == [context |-> context, flow |-> flow]

\* Event instances a caller may pass to chain(event): only their chain matters.
EventPool == { [chain |-> Chain(c, f)] : c \in 0..1, f \in {0, 5} }

\* ------------------------------------------------------------- allocator
\* mutant: chain(event) hands out the cursor instead of the event's chain
ChainOfEvent_Cursor(event) == intern_chain

\* chain(event) with an Event instance: `return event.chain`
ChainOfEvent(event) == event.chain

ChainEvent(t, event) ==
    /\ apc[t] = "idle"
    /\ ncalls < MaxCalls
    /\ ncalls' = ncalls + 1
    /\ returned' = returned \cup
         {[call |-> Cardinality(returned) + 1, op |-> "chain_event",
           start |-> Cardinality(returned), arg |-> event.chain, chain |-> ChainOfEvent(event)]}
    /\ UNCHANGED <<lock, intern_chain, current_context, apc, alocal, nchain, astart, rvars, lvars>>

\* chain() without an event: `chain = cls._intern_chain`, read before the lock
ReadCursor == intern_chain

ChainRead(t) ==
    /\ apc[t] = "idle"
    /\ ncalls < MaxCalls
    /\ ncalls' = ncalls + 1
    /\ nchain' = nchain + 1
    /\ alocal' = [alocal EXCEPT ![t] = ReadCursor]
    /\ astart' = [astart EXCEPT ![t] = Cardinality(returned)]
    /\ apc' = [apc EXCEPT ![t] = "c_acquire"]
    /\ UNCHANGED <<lock, intern_chain, current_context, returned, rvars, lvars>>

\* mutant: the block is entered without waiting for the lock
ChainAcquire_NoWait(t) ==
    /\ apc[t] = "c_acquire"
    /\ lock' = t
    /\ apc' = [apc EXCEPT ![t] = "c_write"]
    /\ UNCHANGED <<intern_chain, current_context, alocal, ncalls, nchain, returned, astart, rvars, lvars>>

\* `with cls._lock:` entry
ChainAcquire(t) ==
    /\ apc[t] = "c_acquire"
    /\ lock = 0
    /\ lock' = t
    /\ apc' = [apc EXCEPT ![t] = "c_write"]
    /\ UNCHANGED <<intern_chain, current_context, alocal, ncalls, nchain, returned, astart, rvars, lvars>>

\* mutant: the arguments of Chain are given in the wrong order
ChainWrite_Swapped(t) ==
    /\ apc[t] = "c_write"
    /\ intern_chain' = Chain(alocal[t].flow + 1, 0)
    /\ apc' = [apc EXCEPT ![t] = "c_release"]
    /\ UNCHANGED <<lock, current_context, alocal, ncalls, nchain, returned, astart, rvars, lvars>>

\* `cls._intern_chain = Chain(0, chain.flow + 1)`
ChainWrite(t) ==
    /\ apc[t] = "c_write"
    /\ intern_chain' = Chain(0, alocal[t].flow + 1)
    /\ apc' = [apc EXCEPT ![t] = "c_release"]
    /\ UNCHANGED <<lock, current_context, alocal, ncalls, nchain, returned, astart, rvars, lvars>>

\* mutant: the lock is left held on the way out
ChainRelease_KeepsLock(t) ==
    /\ apc[t] = "c_release"
    /\ apc' = [apc EXCEPT ![t] = "c_return"]
    /\ UNCHANGED <<lock, intern_chain, current_context, alocal, ncalls, nchain, returned, astart, rvars, lvars>>

\* `with cls._lock:` exit
ChainRelease(t) ==
    /\ apc[t] = "c_release"
    /\ lock' = 0
    /\ apc' = [apc EXCEPT ![t] = "c_return"]
    /\ UNCHANGED <<intern_chain, current_context, alocal, ncalls, nchain, returned, astart, rvars, lvars>>

\* `return chain`
ChainReturn(t) ==
    /\ apc[t] = "c_return"
    /\ returned' = returned \cup
         {[call |-> Cardinality(returned) + 1, op |-> "chain",
           start |-> astart[t], arg |-> alocal[t], chain |-> alocal[t]]}
    /\ apc' = [apc EXCEPT ![t] = "idle"]
    /\ UNCHANGED <<lock, intern_chain, current_context, alocal, ncalls, nchain, astart, rvars, lvars>>

\* new_context_chain(): the call is made and waits for the lock
NewContextCall(t) ==
    /\ apc[t] = "idle"
    /\ ncalls < MaxCalls
    /\ ncalls' = ncalls + 1
    /\ astart' = [astart EXCEPT ![t] = Cardinality(returned)]
    /\ apc' = [apc EXCEPT ![t] = "n_acquire"]
    /\ UNCHANGED <<lock, intern_chain, current_context, alocal, nchain, returned, rvars, lvars>>

NewContextAcquire(t) ==
    /\ apc[t] = "n_acquire"
    /\ lock = 0
    /\ lock' = t
    /\ apc' = [apc EXCEPT ![t] = "n_incr"]
    /\ UNCHANGED <<intern_chain, current_context, alocal, ncalls, nchain, returned, astart, rvars, lvars>>

\* mutant: the increment is dropped and the counter keeps its value
NextContext_Kept == current_context

\* `cls._current_context += 1`: the value stored
NextContext == current_context + 1

\* `cls._current_context += 1`
NewContextIncr(t) ==
    /\ apc[t] = "n_incr"
    /\ current_context' = NextContext
    /\ apc' = [apc EXCEPT ![t] = "n_release"]
    /\ UNCHANGED <<lock, intern_chain, alocal, ncalls, nchain, returned, astart, rvars, lvars>>

NewContextRelease(t) ==
    /\ apc[t] = "n_release"
    /\ lock' = 0
    /\ apc' = [apc EXCEPT ![t] = "n_build"]
    /\ UNCHANGED <<intern_chain, current_context, alocal, ncalls, nchain, returned, astart, rvars, lvars>>

\* `chain = Chain(cls._current_context, 0)`, read after the lock is released
NewContextBuild(t) ==
    /\ apc[t] = "n_build"
    /\ alocal' = [alocal EXCEPT ![t] = Chain(current_context, 0)]
    /\ apc' = [apc EXCEPT ![t] = "n_return"]
    /\ UNCHANGED <<lock, intern_chain, current_context, ncalls, nchain, returned, astart, rvars, lvars>>

NewContextReturn(t) ==
    /\ apc[t] = "n_return"
    /\ returned' = returned \cup
         {[call |-> Cardinality(returned) + 1, op |-> "new_context",
           start |-> astart[t], arg |-> alocal[t], chain |-> alocal[t]]}
    /\ apc' = [apc EXCEPT ![t] = "idle"]
    /\ UNCHANGED <<lock, intern_chain, current_context, alocal, ncalls, nchain, astart, rvars, lvars>>

\* ---------------------------------------------------------- event classes
\* The event classes declared in SapphireEvents after Event, in source order.
ConcreteEvents ==
    << "InitCompleteEvent", "LogEvent", "ShutdownEvent", "UserInputEvent",
       "CommandRegisterEvent", "CommandEvent", "CommandExecutedEvent",
       "ConfirmationEvent", "ErrorEvent", "PromptEvent", "AIResponseEvent",
       "ClientActivationEvent", "TaskRegisterEvent", "TaskEvent",
       "TaskCompletionEvent", "TaskMapUpdatedEvent" >>

ConcreteEventNames == { ConcreteEvents[i] : i \in 1..Len(ConcreteEvents) }

\* The direct base classes of a class (object left out).
Bases(c) == IF c \in ConcreteEventNames THEN {"Event"} ELSE {}

\* issubclass(c, d): a class is a subclass of itself
RECURSIVE IsSubclass(_, _)
IsSubclass(c, d) == c = d \/ \E b \in Bases(c) : IsSubclass(b, d)

NonType(n) == [name |-> n, type |-> FALSE, attr |-> n]
Class(n) == [name |-> n, type |-> TRUE, attr |-> n]

\* SapphireEvents.__dict__.items(), in the order the class body fills it.
ClassDict ==
    << NonType("__module__"), NonType("__annotations__"), NonType("__doc__"),
       Class("Chain"), NonType("_lock"), NonType("_intern_chain"),
       NonType("_current_context"), NonType("_intern_map"), NonType("chain"),
       NonType("new_context_chain"), NonType("make_timestamp"),
       NonType("serialize"), Class("Event") >>
    \o [i \in 1..Len(ConcreteEvents) |-> Class(ConcreteEvents[i])]
    \o << NonType("__dict__"), NonType("__weakref__") >>

\* ---------------------------------------------------------------- registry
\* Names callers ask serialize for.
QueryNames == {"LogEvent", "Event", "Chain", "NotARealEvent"}

\* The exception classes involved, with their direct bases.
ExceptionBases(e) ==
    CASE e = "ValueError" -> {"Exception"}
      [] e = "KeyError" -> {"LookupError"}
      [] e = "IndexError" -> {"LookupError"}
      [] e = "LookupError" -> {"Exception"}
      [] OTHER -> {}

RECURSIVE IsExceptionClass(_, _)
IsExceptionClass(e, d) == e = d \/ \E b \in ExceptionBases(e) : IsExceptionClass(b, d)

\* mutant: only proper subclasses of Event are registered
Registers_ProperSubclass(item) ==
    item.type /\ item.attr # "Event" /\ IsSubclass(item.attr, "Event")

\* `if not isinstance(attr, type): continue` / `if issubclass(attr, SapphireEvents.Event)`
Registers(item) == item.type /\ IsSubclass(item.attr, "Event")

\* `event not in cls._intern_map`
Unknown(name) == name \notin DOMAIN intern_map

\* mutant: the unknown name is reported as a KeyError
UnknownEventError_KeyError == "KeyError"

\* `raise ValueError(f"Unknown event: {event}")`
UnknownEventError == "ValueError"

\* serialize(event): the call and its first line, `if not cls._intern_map`
SerializeCall(t, name) ==
    /\ spc[t] = "idle"
    /\ nscalls < MaxSerialize
    /\ nscalls' = nscalls + 1
    /\ sname' = [sname EXCEPT ![t] = name]
    /\ sseen' = [sseen EXCEPT ![t] = [scanned |-> DOMAIN intern_map = {}, built |-> built,
                                        late |-> resolved # {}]]
    /\ IF DOMAIN intern_map = {}
         THEN /\ spc' = [spc EXCEPT ![t] = "s_scan"]
              /\ sidx' = [sidx EXCEPT ![t] = 1]
              /\ nscans' = nscans + 1
         ELSE /\ spc' = [spc EXCEPT ![t] = "s_lookup"]
              /\ UNCHANGED <<sidx, nscans>>
    /\ UNCHANGED <<intern_map, built, resolved, avars, lvars>>

\* The scan's next item at or after position i that passes both tests of the
\* loop body (the items before it are skipped by `continue` or by the failed
\* issubclass test and touch no shared state); past the end when none is left.
NextRegistered(i) ==
    LET S == { j \in i..Len(ClassDict) : Registers(ClassDict[j]) }
    IN  IF S = {} THEN Len(ClassDict) + 1 ELSE CHOOSE j \in S : \A k \in S : j <= k

\* `for name, attr in SapphireEvents.__dict__.items()`: the loop runs up to
\* its next `cls._intern_map[name] = attr` and performs it, or runs to its end
SerializeScan(t) ==
    /\ spc[t] = "s_scan"
    /\ LET j == NextRegistered(sidx[t]) IN
         IF j <= Len(ClassDict)
           THEN /\ intern_map' = (ClassDict[j].name :> ClassDict[j].attr) @@ intern_map
                /\ sidx' = [sidx EXCEPT ![t] = j + 1]
                /\ UNCHANGED <<spc, built>>
           ELSE /\ spc' = [spc EXCEPT ![t] = "s_lookup"]
                /\ built' = TRUE
                /\ UNCHANGED <<intern_map, sidx>>
    /\ UNCHANGED <<sname, sseen, nscalls, nscans, resolved, avars, lvars>>

\* `if event not in cls._intern_map: raise ...` / `return cls._intern_map[event]`
SerializeLookup(t) ==
    /\ spc[t] = "s_lookup"
    /\ resolved' = resolved \cup
         {[name |-> sname[t],
           scanned |-> sseen[t].scanned, built |-> sseen[t].built,
           error |-> IF Unknown(sname[t]) THEN UnknownEventError ELSE "none",
           result |-> IF Unknown(sname[t]) THEN "none" ELSE intern_map[sname[t]]]}
    /\ spc' = [spc EXCEPT ![t] = "idle"]
    /\ UNCHANGED <<intern_map, sname, sidx, sseen, nscalls, nscans, built, avars, lvars>>

\* ------------------------------------------------------------------ logger
\* LEVELS = {"debug":0, "info":1, "warning":2, "critical":3}
LEVELS == ("debug" :> 0) @@ ("info" :> 1) @@ ("warning" :> 2) @@ ("critical" :> 3)

\* Color.level_map
level_map ==
    ("debug" :> "CYAN") @@ ("info" :> "GREEN") @@ ("warning" :> "YELLOW")
      @@ ("critical" :> "RED")

\* str.upper() on the level names
Upper(s) ==
    CASE s = "debug" -> "DEBUG" [] s = "info" -> "INFO"
      [] s = "warning" -> "WARNING" [] s = "critical" -> "CRITICAL"
      [] OTHER -> s

\* str.capitalize() on the sender names: first letter upper, the rest lower
Capitalize(s) ==
    CASE s = "logger" -> "Logger" [] s = "taskManager" -> "Taskmanager"
      [] OTHER -> s

\* Logger.name()
LoggerName == "logger"

\* SapphireEvents.make_timestamp(): the clock reading, HH:MM:SS
Now == "12:00:00"

\* The configuration view: the keys present and their values. The values have
\* the types the configuration surface declares; a level may be any string.
ConfigKeys == {"logfile", "level", "terminal"}
LevelChoices == DOMAIN LEVELS \cup {"verbose"}

MkConfig(has, lv, tm) ==
    [has |-> has,
     logfile |-> IF "logfile" \in has THEN "app.log" ELSE "",
     level |-> IF "level" \in has THEN lv ELSE "",
     terminal |-> IF "terminal" \in has THEN tm ELSE FALSE]

Configs == { MkConfig(has, lv, tm) : has \in SUBSET ConfigKeys, lv \in LevelChoices, tm \in BOOLEAN }

\* self.config.get(key, default)
ConfigGet(key, default) == IF key \in config.has THEN config[key] ELSE default

\* isinstance(path, str)
IsStr(v) == v \in STRING

\* The events of the bus the logger is interested in. id stands for the
\* identity of the event object; it is no field of the event.
LogEvent(id, sender, chain, level, message) ==
    [type |-> "LogEvent", id |-> id, sender |-> sender, timestamp |-> Now,
     chain |-> chain, level |-> level, message |-> message]

UserInputEvent(id, sender, chain, message) ==
    [type |-> "UserInputEvent", id |-> id, sender |-> sender, timestamp |-> Now,
     chain |-> chain, level |-> "", message |-> message]

NoEvent ==
    [type |-> "none", id |-> 0, sender |-> "", timestamp |-> "", chain |-> Chain(0, 0),
     level |-> "", message |-> ""]

\* f"Now logging into file: {os.path.abspath(self.log_file)}"
NowLoggingMessage(path) ==
    IF path = "sapphire.log" THEN "Now logging into file: /cwd/sapphire.log"
    ELSE "Now logging into file: /cwd/app.log"

\* f"Invalid log level specified in config.toml '{self.log_level}'. Defaulting to 'info'"
InvalidLevelMessage(level) ==
    IF level = "verbose"
      THEN "Invalid log level specified in config.toml 'verbose'. Defaulting to 'info'"
      ELSE "Invalid log level specified in config.toml '?'. Defaulting to 'info'"

\* self.log(SapphireEvents.chain(), level, message): the module takes a fresh
\* chain from the allocator (no other thread is in it), builds the LogEvent
\* and hands it to emit_event, which queues it on the bus.
Log(level, message) ==
    LET ev == LogEvent(nevents + 1, LoggerName, intern_chain, level, message) IN
    /\ intern_chain' = Chain(0, intern_chain.flow + 1)
    /\ nevents' = nevents + 1
    /\ bus' = Append(bus, ev)
    /\ emitted' = Append(emitted, ev)

\* What the logger's steps leave alone outside the logger.
EventsUnchanged == UNCHANGED <<lock, current_context, apc, alocal, astart, ncalls, nchain, returned, rvars>>

\* the bus calls start()
StartCall ==
    /\ lstate = "constructed"
    /\ lstate' = "starting"
    /\ lpc' = "logfile"
    /\ UNCHANGED <<config, attrs, log_file, log_level, to_terminal, bus, emitted, file,
                   terminal, hpc, hev, hbuf, handled, nevents, nend, raised>>
    /\ UNCHANGED intern_chain /\ EventsUnchanged

\* `path = self.config.get("logfile", "sapphire.log")` / `if isinstance(path, str): self.log_file = path`
StartLogFile ==
    /\ lpc = "logfile"
    /\ LET path == ConfigGet("logfile", "sapphire.log") IN
         IF IsStr(path)
           THEN log_file' = path /\ attrs' = attrs \cup {"log_file"}
           ELSE UNCHANGED <<log_file, attrs>>
    /\ lpc' = "announce"
    /\ UNCHANGED <<config, lstate, log_level, to_terminal, bus, emitted, file,
                   terminal, hpc, hev, hbuf, handled, nevents, nend, raised>>
    /\ UNCHANGED intern_chain /\ EventsUnchanged

\* `self.log(SapphireEvents.chain(), "info", f"Now logging into file: ...")`
StartAnnounce ==
    /\ lpc = "announce"
    /\ IF "log_file" \in attrs
         THEN /\ Log("info", NowLoggingMessage(log_file))
              /\ lpc' = "level"
              /\ UNCHANGED <<lstate, raised>>
         ELSE /\ raised' = "AttributeError"
              /\ lstate' = "failed"
              /\ lpc' = "idle"
              /\ UNCHANGED <<intern_chain, nevents, bus, emitted>>
    /\ UNCHANGED <<config, attrs, log_file, log_level, to_terminal, file,
                   terminal, hpc, hev, hbuf, handled, nend>>
    /\ EventsUnchanged

\* `self.log_level: str = self.config.get("level", "info")`
StartLevel ==
    /\ lpc = "level"
    /\ log_level' = ConfigGet("level", "info")
    /\ attrs' = attrs \cup {"log_level"}
    /\ lpc' = "check"
    /\ UNCHANGED <<config, lstate, log_file, to_terminal, bus, emitted, file,
                   terminal, hpc, hev, hbuf, handled, nevents, nend, raised>>
    /\ UNCHANGED intern_chain /\ EventsUnchanged

\* mutant: the invalid level is reported but kept
FallbackLevel_Kept == log_level

\* mutant: the fallback is spelt in upper case, which is no key of LEVELS
FallbackLevel_Upper == "INFO"

\* `self.log_level = "info"`
FallbackLevel == "info"

\* `if self.log_level not in LEVELS.keys(): self.log(..., "warning", ...); self.log_level = "info"`
StartCheckLevel ==
    /\ lpc = "check"
    /\ IF log_level \notin DOMAIN LEVELS
         THEN /\ Log("warning", InvalidLevelMessage(log_level))
              /\ log_level' = FallbackLevel
         ELSE UNCHANGED <<intern_chain, nevents, bus, emitted, log_level>>
    /\ lpc' = "terminal"
    /\ UNCHANGED <<config, lstate, attrs, log_file, to_terminal, file,
                   terminal, hpc, hev, hbuf, handled, nend, raised>>
    /\ EventsUnchanged

\* `self.to_terminal: bool = self.config.get("terminal", True)`, and start returns
StartTerminal ==
    /\ lpc = "terminal"
    /\ to_terminal' = ConfigGet("terminal", TRUE)
    /\ attrs' = attrs \cup {"to_terminal"}
    /\ lstate' = "started"
    /\ lpc' = "idle"
    /\ UNCHANGED <<config, log_file, log_level, bus, emitted, file,
                   terminal, hpc, hev, hbuf, handled, nevents, nend, raised>>
    /\ UNCHANGED intern_chain /\ EventsUnchanged

\* Logger.handled_events()
handled_events == {"LogEvent", "UserInputEvent"}

\* The events other modules publish: log events of every level and user input.
ExternalEvents(id) ==
    { LogEvent(id, "taskManager", Chain(0, 0), l, "task output") : l \in DOMAIN LEVELS }
      \cup { UserInputEvent(id, "client", Chain(1, 0), "hello") }

\* mutant: the bus delivers to a module as soon as its start has been called
CanHandle_OnceStartCalled == lstate \in {"starting", "started"}

\* The module contract's state machine: handle only between start and end.
CanHandle == lstate = "started"

\* The module contract's state machine: end after start and after the
\* handle calls made, at most once.
CanEnd == lstate = "started" /\ \A h \in Handlers : hpc[h] = "idle"

\* The bus invokes handle(ev) on a free thread, the first of its pool.
Invoke(h, ev) ==
    /\ hpc[h] = "idle"
    /\ \A g \in Handlers : g < h => hpc[g] # "idle"
    /\ CanHandle
    /\ ev.type \in handled_events
    /\ hpc' = [hpc EXCEPT ![h] = "match"]
    /\ hev' = [hev EXCEPT ![h] = ev]
    /\ handled' = handled \cup {[ev |-> ev, at |-> lstate, attrs |-> attrs, done |-> FALSE]}

\* the bus dispatches the oldest event the logger emitted
DeliverEmitted(h) ==
    /\ bus # << >>
    /\ Invoke(h, Head(bus))
    /\ bus' = Tail(bus)
    /\ UNCHANGED <<config, lstate, lpc, attrs, log_file, log_level, to_terminal, emitted,
                   file, terminal, hbuf, nevents, nend, raised>>
    /\ UNCHANGED intern_chain /\ EventsUnchanged

\* the bus dispatches an event another module published
DeliverExternal(h, ev) ==
    /\ nevents - Len(emitted) < MaxEvents
    /\ Invoke(h, ev)
    /\ nevents' = nevents + 1
    /\ UNCHANGED <<config, lstate, lpc, attrs, log_file, log_level, to_terminal, bus, emitted,
                   file, terminal, hbuf, nend, raised>>
    /\ UNCHANGED intern_chain /\ EventsUnchanged

\* mutant: an event at the configured level itself is dropped
Accepts_Strict(ev) == LEVELS[ev.level] > LEVELS[log_level]

\* `LEVELS[event.level] >= LEVELS[self.log_level]`
Accepts(ev) == LEVELS[ev.level] >= LEVELS[log_level]

\* The handle call of thread h ends: it returns, or raises err.
Finish(h, err) ==
    /\ hpc' = [hpc EXCEPT ![h] = "idle"]
    /\ hev' = [hev EXCEPT ![h] = NoEvent]
    /\ handled' = { IF r.ev.id = hev[h].id THEN [r EXCEPT !.done = TRUE] ELSE r : r \in handled }
    /\ raised' = IF err = "none" THEN raised ELSE err

\* mutant: the UserInputEvent case logs the event like a LogEvent
HandleMatch_LogsUserInput(h) ==
    /\ hpc[h] = "match"
    /\ IF hev[h].type = "LogEvent" /\ ~Accepts(hev[h])
         THEN Finish(h, "none")
         ELSE /\ hpc' = [hpc EXCEPT ![h] = "open"]
              /\ UNCHANGED <<hev, handled, raised>>
    /\ UNCHANGED <<config, lstate, lpc, attrs, log_file, log_level, to_terminal, bus, emitted,
                   file, terminal, hbuf, nevents, nend>>
    /\ UNCHANGED intern_chain /\ EventsUnchanged

\* `match event:` / `case SapphireEvents.LogEvent(): if LEVELS[...] >= LEVELS[...]:`
\* / `case SapphireEvents.UserInputEvent(): pass`
HandleMatch(h) ==
    /\ hpc[h] = "match"
    /\ LET ev == hev[h] IN
         IF ev.type # "LogEvent"
           THEN Finish(h, "none")
           ELSE IF "log_level" \notin attrs
             THEN Finish(h, "AttributeError")
           ELSE IF ev.level \notin DOMAIN LEVELS \/ log_level \notin DOMAIN LEVELS
             THEN Finish(h, "KeyError")
           ELSE IF Accepts(ev)
             THEN /\ hpc' = [hpc EXCEPT ![h] = "open"]
                  /\ UNCHANGED <<hev, handled, raised>>
           ELSE Finish(h, "none")
    /\ UNCHANGED <<config, lstate, lpc, attrs, log_file, log_level, to_terminal, bus, emitted,
                   file, terminal, hbuf, nevents, nend>>
    /\ UNCHANGED intern_chain /\ EventsUnchanged

\* file_log: f"[{event.timestamp}] [{event.level.upper()}] ({event.sender.capitalize()}) {event.message}\n"
FileLine(ev) ==
    [timestamp |-> ev.timestamp, level |-> Upper(ev.level),
     sender |-> Capitalize(ev.sender), message |-> ev.message, ev |-> ev.id]

\* terminal_log: f"{timestamp} {level} {sender} {message}" with the colours
TerminalLine(ev) ==
    [timestamp |-> ev.timestamp, level |-> Upper(ev.level),
     level_color |-> level_map[ev.level], sender |-> ev.sender,
     sender_color |-> "MAGENTA", message |-> ev.message, ev |-> ev.id]

\* `with open(self.log_file, "a+") as file:` entry and `file.write(log_str)`:
\* the file is open and the line is in the file object's buffer
HandleOpen(h) ==
    /\ hpc[h] = "open"
    /\ hbuf' = [hbuf EXCEPT ![h] = << FileLine(hev[h]) >>]
    /\ hpc' = [hpc EXCEPT ![h] = "close"]
    /\ UNCHANGED <<config, lstate, lpc, attrs, log_file, log_level, to_terminal, bus, emitted,
                   file, terminal, hev, handled, nevents, nend, raised>>
    /\ UNCHANGED intern_chain /\ EventsUnchanged

\* mutant: the file is opened for writing, which truncates it
Flushed_Truncating(content, buffer) == buffer

\* A file opened in append mode: the buffer is written at the end of the file.
Flushed(content, buffer) == content \o buffer

\* `with open(...)` exit: close flushes the buffer in one write; then
\* `if self.to_terminal:` decides whether terminal_log runs
HandleClose(h) ==
    /\ hpc[h] = "close"
    /\ file' = Flushed(file, hbuf[h])
    /\ hbuf' = [hbuf EXCEPT ![h] = << >>]
    /\ IF "to_terminal" \notin attrs
         THEN Finish(h, "AttributeError")
         ELSE IF to_terminal
           THEN /\ hpc' = [hpc EXCEPT ![h] = "print"]
                /\ UNCHANGED <<hev, handled, raised>>
           ELSE Finish(h, "none")
    /\ UNCHANGED <<config, lstate, lpc, attrs, log_file, log_level, to_terminal, bus, emitted,
                   terminal, nevents, nend>>
    /\ UNCHANGED intern_chain /\ EventsUnchanged

\* terminal_log: `print(log_str)`, and handle returns
HandlePrint(h) ==
    /\ hpc[h] = "print"
    /\ terminal' = Append(terminal, TerminalLine(hev[h]))
    /\ Finish(h, "none")
    /\ UNCHANGED <<config, lstate, lpc, attrs, log_file, log_level, to_terminal, bus, emitted,
                   file, hbuf, nevents, nend>>
    /\ UNCHANGED intern_chain /\ EventsUnchanged

\* the bus calls end(): `return (True, "")`
End ==
    /\ CanEnd
    /\ lstate' = "ended"
    /\ nend' = nend + 1
    /\ UNCHANGED <<config, lpc, attrs, log_file, log_level, to_terminal, bus, emitted,
                   file, terminal, hpc, hev, hbuf, handled, nevents, raised>>
    /\ UNCHANGED intern_chain /\ EventsUnchanged

\* ------------------------------------------------------------ specification
\* The class attributes of SapphireEvents after import; no call made yet.
InitEvents ==
    /\ lock = 0
    /\ intern_chain = Chain(0, 0)
    /\ current_context = 0
    /\ intern_map = << >>
    /\ apc = [t \in Threads |-> "idle"]
    /\ alocal = [t \in Threads |-> Chain(0, 0)]
    /\ astart = [t \in Threads |-> 0]
    /\ ncalls = 0
    /\ nchain = 0
    /\ returned = {}
    /\ spc = [t \in Threads |-> "idle"]
    /\ sname = [t \in Threads |-> ""]
    /\ sidx = [t \in Threads |-> 0]
    /\ sseen = [t \in Threads |-> [scanned |-> FALSE, built |-> FALSE, late |-> FALSE]]
    /\ nscalls = 0
    /\ nscans = 0
    /\ built = FALSE
    /\ resolved = {}

\* Logger.__init__(emit_event, config): no attribute of its own is set.
InitLogger(c) ==
    /\ config = c
    /\ lstate = "constructed"
    /\ lpc = "idle"
    /\ attrs = {}
    /\ log_file = ""
    /\ log_level = ""
    /\ to_terminal = FALSE
    /\ bus = << >>
    /\ emitted = << >>
    /\ file = << >>
    /\ terminal = << >>
    /\ hpc = [h \in Handlers |-> "idle"]
    /\ hev = [h \in Handlers |-> NoEvent]
    /\ hbuf = [h \in Handlers |-> << >>]
    /\ handled = {}
    /\ nevents = 0
    /\ nend = 0
    /\ raised = "none"

\* The empty configuration: every key takes its default.
NoConfig == MkConfig({}, "", FALSE)

Init == InitEvents /\ InitLogger(NoConfig)

InitLog == InitEvents /\ \E c \in Configs : InitLogger(c)

NextAlloc ==
    \E t \in Threads :
        \/ \E event \in EventPool : ChainEvent(t, event)
        \/ ChainRead(t)
        \/ ChainAcquire(t)
        \/ ChainWrite(t)
        \/ ChainRelease(t)
        \/ ChainReturn(t)
        \/ NewContextCall(t)
        \/ NewContextAcquire(t)
        \/ NewContextIncr(t)
        \/ NewContextRelease(t)
        \/ NewContextBuild(t)
        \/ NewContextReturn(t)

SpecAlloc == Init /\ [][NextAlloc]_vars

\* A thread inside a call runs on: the steps that do not wait for the lock.
Proceed(t) ==
    \/ ChainWrite(t)
    \/ ChainRelease(t)
    \/ ChainReturn(t)
    \/ NewContextIncr(t)
    \/ NewContextRelease(t)
    \/ NewContextBuild(t)
    \/ NewContextReturn(t)

\* A thread waiting for the lock takes it.
Acquire(t) == ChainAcquire(t) \/ NewContextAcquire(t)

\* Fair scheduling: a running thread is not stopped for ever, and a thread
\* waiting for a lock that is free again and again gets it.
SpecAllocFair ==
    SpecAlloc /\ \A t \in Threads : WF_vars(Proceed(t)) /\ SF_vars(Acquire(t))

NextReg ==
    \E t \in Threads :
        \/ \E name \in QueryNames : SerializeCall(t, name)
        \/ SerializeScan(t)
        \/ SerializeLookup(t)

SpecReg == Init /\ [][NextReg]_vars

NextLog ==
    \/ StartCall
    \/ StartLogFile
    \/ StartAnnounce
    \/ StartLevel
    \/ StartCheckLevel
    \/ StartTerminal
    \/ \E h \in Handlers :
          \/ DeliverEmitted(h)
          \/ \E ev \in ExternalEvents(nevents + 1) : DeliverExternal(h, ev)
          \/ HandleMatch(h)
          \/ HandleOpen(h)
          \/ HandleClose(h)
          \/ HandlePrint(h)
    \/ End

SpecLog == InitLog /\ [][NextLog]_vars

\* ================================================================== claims
ChainReturns == { r \in returned : r.op = "chain" }
NewContextReturns == { r \in returned : r.op = "new_context" }

\* C1: the chains returned by chain() calls made without an event have
\* pairwise distinct flow values, all within [f0, f0 + N), where f0 = 0 is
\* the cursor's flow before the calls and N the number of calls made.
C1_DistinctFlows ==
    /\ \A r1, r2 \in ChainReturns : r1.call # r2.call => r1.chain.flow # r2.chain.flow
    /\ \A r \in ChainReturns : r.chain.flow \in 0..(nchain - 1)

\* C2: the chains returned by new_context_chain() calls have pairwise
\* distinct context values and each has flow 0.
C2_DistinctContexts ==
    /\ \A r1, r2 \in NewContextReturns :
          r1.call # r2.call => r1.chain.context # r2.chain.context
    /\ \A r \in NewContextReturns : r.chain.flow = 0

\* C3: a chain(event) call with an Event instance returns exactly event.chain
\* and leaves the context-0 cursor and the context counter as they were.
C3_ChainOfEventIsItsChain ==
    [][\A r \in returned' \ returned :
          r.op = "chain_event" =>
             /\ r.chain = r.arg
             /\ UNCHANGED <<intern_chain, current_context>>]_vars

\* C3 witness: chain(event) has returned after the cursor and the counter
\* moved, while another thread is inside the lock.
C3_Witness ==
    \E r \in returned :
        /\ r.op = "chain_event"
        /\ r.chain # intern_chain
        /\ intern_chain.flow + current_context > 0
        /\ lock # 0

\* C4: a serialize call whose name is a declared event type name returns that
\* event type and never fails, whatever other serialize calls run beside it.
C4_DeclaredNameResolves ==
    \A r \in resolved :
        r.name \in ConcreteEventNames => r.error = "none" /\ r.result = r.name

\* Every name a caller could pass: the class attributes and the names asked.
NameUniverse == { ClassDict[i].name : i \in 1..Len(ClassDict) } \cup QueryNames

Resolvable == { n \in NameUniverse : ~Unknown(n) }

\* C5 as stated: once the registry is built, the names serialize resolves are
\* exactly the 16 concrete event type names, the base type's name not among them.
C5_OnlyConcreteNamesResolve ==
    built =>
       /\ Resolvable = ConcreteEventNames
       /\ \A r \in resolved : r.built => (r.error = "none" <=> r.name \in ConcreteEventNames)

\* C5 amended: once the registry is built, the names serialize resolves are
\* exactly the 16 concrete event type names and the base type's name, Event.
C5_ConcreteAndBaseNamesResolve ==
    built =>
       /\ Resolvable = ConcreteEventNames \cup {"Event"}
       /\ \A r \in resolved :
             r.built => (r.error = "none" <=> r.name \in ConcreteEventNames \cup {"Event"})

\* C5 witness: a call that began on a built registry has resolved the base
\* type's name, and the class Chain, which is no event, does not resolve.
C5_Witness ==
    /\ built
    /\ \E r \in resolved : r.built /\ r.name = "Event" /\ r.result = "Event"
    /\ "Chain" \notin Resolvable

\* A call that ran the scan itself or began after a scan had ended: it does
\* not depend on another call's scan in progress.
Settled(r) == r.scanned \/ r.built

RankOrder == << "debug", "info", "warning", "critical" >>
RankOf(l) == CHOOSE i \in 1..Len(RankOrder) : RankOrder[i] = l

Started == lstate \in {"started", "ended"}
AtOrAbove(ev) == RankOf(ev.level) >= RankOf(log_level)
LogCalls == { r \in handled : r.ev.type = "LogEvent" }
FileLinesOf(id) == { i \in 1..Len(file) : file[i].ev = id }
TerminalLinesOf(id) == { i \in 1..Len(terminal) : terminal[i].ev = id }

\* C7: for a started logger, a LogEvent passed to handle is written to the
\* file sink if and only if its level ranks at or above the configured level;
\* an event below it leaves no trace in the file sink nor in the terminal sink.
C7_FilterByRank ==
    Started =>
       \A r \in LogCalls :
          /\ r.done => (FileLinesOf(r.ev.id) # {} <=> AtOrAbove(r.ev))
          /\ ~AtOrAbove(r.ev) => FileLinesOf(r.ev.id) = {} /\ TerminalLinesOf(r.ev.id) = {}

\* C7 witness: one event at exactly the configured level was written, another
\* below it was dropped.
C7_Witness ==
    /\ Started
    /\ \E r \in LogCalls : r.done /\ r.ev.level = log_level /\ FileLinesOf(r.ev.id) # {}
    /\ \E r \in LogCalls : r.done /\ ~AtOrAbove(r.ev) /\ FileLinesOf(r.ev.id) = {}

\* C8: for a started logger, each finished handle call on a LogEvent at or
\* above the configured level has appended exactly one line to the file sink,
\* and one terminal line if the terminal option is true, none if it is false.
C8_OneLinePerAcceptedEvent ==
    Started =>
       \A r \in LogCalls :
          (r.done /\ AtOrAbove(r.ev)) =>
             /\ Cardinality(FileLinesOf(r.ev.id)) = 1
             /\ Cardinality(TerminalLinesOf(r.ev.id)) = IF to_terminal THEN 1 ELSE 0

\* C8 witness: two accepted events are in the file, one finished with its
\* terminal line printed.
C8_Witness ==
    /\ Started
    /\ to_terminal
    /\ Len(file) = 2
    /\ \E r \in LogCalls :
          r.done /\ AtOrAbove(r.ev) /\ Cardinality(TerminalLinesOf(r.ev.id)) = 1

InvalidLevelConfigured ==
    "level" \in config.has /\ config.level \notin {"debug", "info", "warning", "critical"}

Warnings == { i \in 1..Len(emitted) : emitted[i].level = "warning" }

\* C9: with a configured level that is none of debug, info, warning, critical,
\* start does not raise, and once it has returned the effective level is info
\* and exactly one warning-level log event, naming the fallback, was emitted.
C9_InvalidLevelFallsBack ==
    InvalidLevelConfigured =>
       /\ lstate # "failed"
       /\ raised = "none"
       /\ Started =>
             /\ log_level = "info"
             /\ Cardinality(Warnings) = 1
             /\ \A i \in Warnings :
                   /\ emitted[i].type = "LogEvent"
                   /\ emitted[i].message = InvalidLevelMessage(config.level)

\* C9 witness: start has returned on a configuration with the level "verbose".
C9_Witness ==
    /\ InvalidLevelConfigured
    /\ lstate = "started"
    /\ log_level = "info"
    /\ Cardinality(Warnings) = 1

PastIncrement == { t \in Threads : apc[t] \in {"n_release", "n_build", "n_return"} }

\* Call r1 had returned when call r2 began.
Before(r1, r2) == r1.call <= r2.start

\* C11: the context counter never decreases, it counts exactly the
\* new_context_chain calls that have done their increment (every completed
\* call raised it by one, none was lost), and of two calls that do not
\* overlap the later returns the greater context.
C11_ContextCounterMonotonic ==
    [][/\ current_context' >= current_context
       /\ current_context' = Cardinality(NewContextReturns') + Cardinality(PastIncrement')
       /\ \A r1, r2 \in NewContextReturns' :
             Before(r1, r2) => r1.chain.context < r2.chain.context]_vars

\* C11 witness: a new_context_chain call returned before another began, and
\* both have returned.
C11_Witness ==
    /\ current_context >= 2
    /\ \E r1, r2 \in NewContextReturns : Before(r1, r2)

\* Threads whose chain() call has advanced the cursor and not returned.
PastAdvance == { t \in Threads : apc[t] \in {"c_release", "c_return"} }

\* C12: read and advance of the context-0 cursor are one atomic step: the
\* cursor's flow equals its initial value, 0, plus the number of chain() calls
\* that have advanced it, so no update is lost or stale.
C12_CursorCountsCalls ==
    intern_chain.flow = Cardinality(ChainReturns) + Cardinality(PastAdvance)

\* A serialize call that began after some serialize call had returned does
\* not run the scan, the only code that writes the table.
LateCallsOnlyRead == \A t \in Threads : sseen[t].late => spc[t] # "s_scan"

\* C13: the registry is built exactly once: the scan of the event definitions
\* runs in at most one serialize call, and a call that begins after a call has
\* returned does not write the table.
C13_BuiltOnce == nscans <= 1 /\ LateCallsOnlyRead

AllIdle == \A t \in Threads : apc[t] = "idle"

\* C14: under fair scheduling every chain() and new_context_chain() call
\* returns, and whenever no thread is inside a call the lock is free.
C14_CallsReturnLockFreed ==
    /\ [](AllIdle => lock = 0)
    /\ \A t \in Threads : (apc[t] # "idle") ~> (apc[t] = "idle")

\* C14 witness: a thread waits for the lock while another thread, which has
\* done its write, still holds it.
C14_Witness ==
    \E t, u \in Threads :
        /\ apc[t] \in {"c_acquire", "n_acquire"}
        /\ lock = u
        /\ u # t
        /\ apc[u] \in {"c_release", "n_release"}

\* C15: context 0 is the system's: every chain returned by chain() without an
\* event has context 0, and every chain returned by new_context_chain() has a
\* context of at least 1.
C15_ContextZeroReserved ==
    /\ \A r \in ChainReturns : r.chain.context = 0
    /\ \A r \in NewContextReturns : r.chain.context >= 1
    /\ intern_chain.context = 0

\* C15 witness: chain() has advanced the cursor and returned, and
\* new_context_chain() has returned too.
C15_Witness ==
    /\ ChainReturns # {}
    /\ intern_chain.flow >= 1
    /\ NewContextReturns # {}

\* The handle calls inside `with open(self.log_file, "a+")`: the file is
\* open, its line written to the file object and not yet flushed by close.
InOpenWriteClose == { h \in Handlers : hpc[h] = "close" }

\* C16: the open-append-close sequences of concurrent handle calls are
\* serialized, no two of them overlap, and the file holds exactly one line for
\* every accepted event handled.
C16_FileWritesSerialized ==
    /\ Cardinality(InOpenWriteClose) <= 1
    /\ Started =>
          \A r \in LogCalls :
             (r.done /\ AtOrAbove(r.ev)) => Cardinality(FileLinesOf(r.ev.id)) = 1

\* The sinks and the logger's configured state.
SinksAndSettings == <<file, terminal, log_file, log_level, to_terminal, attrs>>

\* C17: handle called with a UserInputEvent has no effect: the step that
\* passes the event in and the step the call takes both leave the file sink,
\* the terminal sink and the logger's log file, level and terminal flag as
\* they were, the call then returns, and no line of either sink comes from it.
C17_UserInputIgnored ==
    [][/\ \A h \in Handlers :
            /\ (hev[h].type = "UserInputEvent" /\ hpc'[h] # hpc[h]) =>
                  hpc'[h] = "idle" /\ UNCHANGED SinksAndSettings
            /\ (hev'[h].type = "UserInputEvent" /\ hev[h] # hev'[h]) =>
                  UNCHANGED SinksAndSettings
       /\ \A r \in handled' :
            r.ev.type = "UserInputEvent" =>
               /\ \A i \in 1..Len(file') : file'[i].ev # r.ev.id
               /\ \A i \in 1..Len(terminal') : terminal'[i].ev # r.ev.id]_vars

\* C17 witness: a handle call on a UserInputEvent has returned on a logger
\* that has written log events to both sinks.
C17_Witness ==
    /\ \E r \in handled : r.done /\ r.ev.type = "UserInputEvent"
    /\ file # << >>
    /\ terminal # << >>

ValidLevels == {"debug", "info", "warning", "critical"}

\* C18: whenever start has returned, the logger's level is one of debug, info,
\* warning, critical, whatever the level key held; so no handle call on a
\* LogEvent with a valid level fails looking up the configured level's rank.
C18_LevelValidAfterStart ==
    /\ Started => log_level \in ValidLevels
    /\ (\E r \in LogCalls : r.ev.level \in ValidLevels) =>
          raised \notin {"KeyError", "AttributeError"}

\* C18 witness: on a configuration with an invalid level, start has returned
\* and a handle call on another module's LogEvent has returned normally.
C18_Witness ==
    /\ InvalidLevelConfigured
    /\ Started
    /\ raised = "none"
    /\ \E r \in LogCalls : r.done /\ r.ev.sender # LoggerName /\ r.ev.level \in ValidLevels

\* Threads inside a `with cls._lock:` block.
InLockBlock == { t \in Threads : apc[t] \in {"c_write", "c_release", "n_incr", "n_release"} }

\* C19: the context-0 cursor and the context counter are written only by a
\* step of the thread that holds the lock, and at most one thread is inside a
\* `with cls._lock:` block, the one the lock records.
C19_WritesUnderLock ==
    [][/\ (intern_chain' # intern_chain \/ current_context' # current_context) =>
             /\ lock # 0
             /\ lock \in InLockBlock
             /\ apc'[lock] # apc[lock]
       /\ Cardinality(InLockBlock') <= 1
       /\ \A t \in InLockBlock' : lock' = t]_vars

\* C19 witness: the cursor has been written, and a thread that has just
\* written the counter still holds the lock.
C19_Witness ==
    /\ lock # 0
    /\ apc[lock] = "n_release"
    /\ intern_chain.flow >= 1
    /\ current_context >= 1

====
